---- MODULE Spec2Model ----
(***************************************************************************)
(* PrettyJSON, the terminal renderer of sqliteadmin (prettyJSON.js).       *)
(*                                                                         *)
(* Text is a sequence of characters, a character a one-element string.     *)
(* The escape character and the box-drawing characters, which a TLA+       *)
(* string cannot hold, are the tokens below; each counts as one character. *)
(***************************************************************************)
EXTENDS Integers, Sequences, FiniteSets

NL == "\n"
ESC == "ESC"
BOX_TL == "TL"
BOX_TR == "TR"
BOX_BL == "BL"
BOX_BR == "BR"
BOX_H == "H"
BOX_V == "V"
BOX_SEP_L == "SL"
BOX_SEP_R == "SR"
BOX_SEP_T == "ST"
BOX_SEP_B == "SB"

RESET == <<ESC, "[", "0", "m">>
BOLD == <<ESC, "[", "1", "m">>
YELLOW == <<ESC, "[", "9", "3", "m">>
CYAN == <<ESC, "[", "3", "6", "m">>
GREEN == <<ESC, "[", "3", "2", "m">>
RED == <<ESC, "[", "3", "1", "m">>
GRAY == <<ESC, "[", "9", "0", "m">>

INDENT_SIZE == 2
ColumnCap == 50

(***************************************************************************)
(* Bounds of the model.                                                    *)
(***************************************************************************)
MaxStrLen == 27
MaxIndent == 1
MaxKeys == 3
MaxArrLen == 2
MaxRows == 2
LongLen == 51

Max(a, b) == IF a >= b THEN a ELSE b
Min(a, b) == IF a <= b THEN a ELSE b

(***************************************************************************)
(* String primitives of the language runtime, as the code uses them.       *)
(***************************************************************************)
Repeat(c, n) == [i \in 1..n |-> c]

\* str.indexOf(c): the 0-based index of the first c, or -1
IndexOf(str, c) ==
  IF \E i \in 1..Len(str) : str[i] = c
  THEN (CHOOSE i \in 1..Len(str) : str[i] = c /\ \A j \in 1..(i - 1) : str[j] # c) - 1
  ELSE -1

\* str.slice(0, end): a negative end counts from the end of the text
Slice(str, end) ==
  LET e == IF end < 0 THEN Max(Len(str) + end, 0) ELSE Min(end, Len(str))
  IN SubSeq(str, 1, e)

EndsWith(str, c) == Len(str) > 0 /\ str[Len(str)] = c

\* str.padEnd(w)
PadEnd(str, w) == IF Len(str) >= w THEN str ELSE str \o Repeat(" ", w - Len(str))

Digit(d) ==
  CASE d = 0 -> "0" [] d = 1 -> "1" [] d = 2 -> "2" [] d = 3 -> "3" [] d = 4 -> "4"
    [] d = 5 -> "5" [] d = 6 -> "6" [] d = 7 -> "7" [] d = 8 -> "8" [] d = 9 -> "9"

RECURSIVE NatToString(_)
NatToString(n) ==
  IF n < 10 THEN <<Digit(n)>> ELSE NatToString(n \div 10) \o <<Digit(n % 10)>>

\* Number.prototype.toString of an integer
NumToString(n) == IF n < 0 THEN <<"-">> \o NatToString(0 - n) ELSE NatToString(n)

IsDigit(c) == c \in {"0", "1", "2", "3", "4", "5", "6", "7", "8", "9"}

\* the length of the escape /\u001b\[[0-9;]*m/ that starts at position i, or 0
RECURSIVE EscapeBody(_, _)
EscapeBody(str, j) ==
  IF j > Len(str) THEN 0
  ELSE IF str[j] = "m" THEN j
  ELSE IF IsDigit(str[j]) \/ str[j] = ";" THEN EscapeBody(str, j + 1)
  ELSE 0

EscapeEnd(str, i) ==
  IF i + 1 <= Len(str) /\ str[i] = ESC /\ str[i + 1] = "[" THEN EscapeBody(str, i + 2) ELSE 0

RECURSIVE StripFrom(_, _)
StripFrom(str, i) ==
  IF i > Len(str) THEN <<>>
  ELSE IF EscapeEnd(str, i) > 0 THEN StripFrom(str, EscapeEnd(str, i) + 1)
  ELSE <<str[i]>> \o StripFrom(str, i + 1)

\* #stripColors
StripColors(str) == StripFrom(str, 1)

(***************************************************************************)
(* #truncate                                                               *)
(***************************************************************************)
\* !maxLen || isNaN(maxLen) || maxLen < 0, for an integer maxLen
NoLimit(maxLen) == maxLen = 0 \/ maxLen < 0

\* maxLen after the two adjustments: no limit, and the first line break
EffectiveMax(str, maxLen) ==
  LET new_line_idx == IndexOf(str, NL)
      m == IF NoLimit(maxLen) THEN Len(str) ELSE maxLen
  IN IF new_line_idx # -1 /\ new_line_idx < m THEN new_line_idx ELSE m

VerboseStyle(m, discourage) == m > 24 /\ discourage

AtLineBreak(str, m) == EndsWith(Slice(str, m + 1), NL)

\* the end index the code hands to str.slice(0, .)
SliceEnd(str, maxLen, discourage) ==
  LET m == EffectiveMax(str, maxLen)
  IN IF VerboseStyle(m, discourage)
     THEN IF AtLineBreak(str, m) THEN m - 21
          ELSE m - 12 - Len(NumToString(Len(str) - m))
     ELSE m - 3

TruncSuffix(str, maxLen, discourage) ==
  LET m == EffectiveMax(str, maxLen)
      more == NumToString(Len(str) - m)
  IN IF VerboseStyle(m, discourage)
     THEN IF AtLineBreak(str, m)
          THEN <<" ">> \o RESET \o <<"(", "m", "u", "l", "t", "i", "-", "l", "i", "n", "e", " ">>
               \o more \o <<" ", "m", "o", "r", "e", ".", ".", ".", ")">>
          ELSE <<".", ".", ".", " ">> \o RESET \o <<"(">> \o more
               \o <<" ", "m", "o", "r", "e", ")">>
     ELSE <<".", ".", ".">>

Truncate(str, maxLen, discourage) ==
  IF Len(str) <= EffectiveMax(str, maxLen) THEN str
  ELSE Slice(str, SliceEnd(str, maxLen, discourage)) \o TruncSuffix(str, maxLen, discourage)

(***************************************************************************)
(* Values.  A record is its keys in insertion order with their values.     *)
(***************************************************************************)
Str(text) == [tag |-> "string", s |-> text, n |-> 0, b |-> FALSE, keys |-> <<>>, items |-> <<>>]
Num(k) == [tag |-> "number", s |-> <<>>, n |-> k, b |-> FALSE, keys |-> <<>>, items |-> <<>>]
Bool(v) == [tag |-> "boolean", s |-> <<>>, n |-> 0, b |-> v, keys |-> <<>>, items |-> <<>>]
Null == [tag |-> "null", s |-> <<>>, n |-> 0, b |-> FALSE, keys |-> <<>>, items |-> <<>>]
Arr(elems) == [tag |-> "array", s |-> <<>>, n |-> 0, b |-> FALSE, keys |-> <<>>, items |-> elems]
Obj(ks, vs) == [tag |-> "object", s |-> <<>>, n |-> 0, b |-> FALSE, keys |-> ks, items |-> vs]
\* undefined, what obj[key] is for a key obj does not have
Undefined == [tag |-> "undefined", s |-> <<>>, n |-> 0, b |-> FALSE, keys |-> <<>>, items |-> <<>>]

\* #getType
GetType(value) ==
  IF value.tag \in {"null", "string", "number", "boolean"} THEN "primitive"
  ELSE IF value.tag = "array" THEN "array"
  ELSE IF value.tag = "object" THEN "object"
  ELSE "unknown"

\* a canonical array index: the keys an object enumerates first, in numeric order
IsArrayIndex(key) ==
  /\ Len(key) > 0
  /\ \A i \in 1..Len(key) : IsDigit(key[i])
  /\ (Len(key) > 1 => key[1] # "0")

DigitValue(c) == CHOOSE d \in 0..9 : Digit(d) = c

RECURSIVE KeyNumber(_)
KeyNumber(key) ==
  IF Len(key) = 0 THEN 0
  ELSE 10 * KeyNumber(SubSeq(key, 1, Len(key) - 1)) + DigitValue(key[Len(key)])

RECURSIVE Ascending(_)
Ascending(S) ==
  IF S = {} THEN <<>>
  ELSE LET least == CHOOSE k \in S : \A j \in S : KeyNumber(k) <= KeyNumber(j)
       IN <<least>> \o Ascending(S \ {least})

NotArrayIndex(key) == ~IsArrayIndex(key)

\* a mutant of ObjectKeys: the keys as inserted
ObjectKeysAsInserted(obj) == obj.keys

\* Object.keys(obj): array-index keys ascending, then the others as inserted
ObjectKeys(obj) ==
  Ascending({obj.keys[i] : i \in {j \in 1..Len(obj.keys) : IsArrayIndex(obj.keys[j])}})
    \o SelectSeq(obj.keys, NotArrayIndex)

\* obj[key]
Get(obj, key) ==
  IF \E i \in 1..Len(obj.keys) : obj.keys[i] = key
  THEN obj.items[CHOOSE i \in 1..Len(obj.keys) : obj.keys[i] = key]
  ELSE Undefined

\* firstKeys.includes(k)
Includes(seq, x) == \E i \in 1..Len(seq) : seq[i] = x

RECURSIVE Join(_, _)
Join(parts, sep) ==
  IF Len(parts) = 0 THEN <<>>
  ELSE IF Len(parts) = 1 THEN parts[1]
  ELSE parts[1] \o sep \o Join(Tail(parts), sep)

\* String(value)
RECURSIVE JsString(_)
JsString(value) ==
  CASE value.tag = "string" -> value.s
    [] value.tag = "number" -> NumToString(value.n)
    [] value.tag = "boolean" ->
         IF value.b THEN <<"t", "r", "u", "e">> ELSE <<"f", "a", "l", "s", "e">>
    [] value.tag = "null" -> <<"n", "u", "l", "l">>
    [] value.tag = "object" ->
         <<"[", "o", "b", "j", "e", "c", "t", " ", "O", "b", "j", "e", "c", "t", "]">>
    [] value.tag = "undefined" -> <<"u", "n", "d", "e", "f", "i", "n", "e", "d">>
    [] value.tag = "array" ->
         Join([i \in 1..Len(value.items) |->
                 IF value.items[i].tag \in {"null", "undefined"} THEN <<>>
                 ELSE JsString(value.items[i])],
              <<",">>)

\* #formatPrimitive
FormatPrimitive(value, maxPrim, discourage) ==
  CASE value.tag = "string" -> YELLOW \o Truncate(value.s, maxPrim, discourage) \o RESET
    [] value.tag = "number" ->
         CYAN \o Truncate(NumToString(value.n), maxPrim, discourage) \o RESET
    [] value.tag = "boolean" ->
         IF value.b THEN GREEN \o <<"t", "r", "u", "e">> \o RESET
         ELSE RED \o <<"f", "a", "l", "s", "e">> \o RESET
    [] value.tag = "null" -> GRAY \o <<"n", "u", "l", "l">> \o RESET
    [] OTHER -> JsString(value)

(***************************************************************************)
(* Output.  The text a call returns is its lines joined by line breaks; a  *)
(* line is the run of spaces the code puts in front (pre) and the rest     *)
(* (body).  lvl and kind record which call emitted the line and as what.   *)
(***************************************************************************)
MkLine(p, text, level, k) == [pre |-> p, body |-> text, lvl |-> level, kind |-> k]

\* ' '.repeat(indent * INDENT_SIZE)
IndentWidth(indent) == indent * INDENT_SIZE

\* a mutant of KeyIndentWidth: the two leading spaces forgotten
KeyIndentWidthFlat(indent) == indent * 2

\* the two spaces and ' '.repeat(indent * 2) in front of a key
KeyIndentWidth(indent) == 2 + indent * 2

\* the level of the recursive calls
Deeper(indent) == indent + 1

(***************************************************************************)
(* #printTable                                                             *)
(***************************************************************************)
PlainCell(row, key, maxPrim, discourage) ==
  StripColors(FormatPrimitive(Get(row, key), maxPrim, discourage))

RECURSIVE MaxOf(_)
MaxOf(S) == IF S = {} THEN 0 ELSE LET x == CHOOSE y \in S : TRUE IN Max(x, MaxOf(S \ {x}))

\* a mutant of ColumnWidth: the cap forgotten
ColumnWidthNoCap(arr, key, maxPrim, discourage) ==
  Max(Len(key), MaxOf({Len(PlainCell(arr[r], key, maxPrim, discourage)) : r \in 1..Len(arr)}))

\* widths[key]
ColumnWidth(arr, key, maxPrim, discourage) ==
  LET headerLen == Len(key)
      valuesLens == {Len(PlainCell(arr[r], key, maxPrim, discourage)) : r \in 1..Len(arr)}
  IN Min(Max(headerLen, MaxOf(valuesLens)), ColumnCap)

Widths(arr, maxPrim, discourage) ==
  LET keys == ObjectKeys(arr[1])
  IN [c \in 1..Len(keys) |-> ColumnWidth(arr, keys[c], maxPrim, discourage)]

RECURSIVE SumSeq(_)
SumSeq(s) == IF Len(s) = 0 THEN 0 ELSE s[1] + SumSeq(Tail(s))

\* keys.reduce((sum, k) => sum + widths[k] + 3, -3) + 2
TotalWidth(widths) == (SumSeq(widths) + 3 * Len(widths) - 3) + 2

\* padded, the header text of a column
HeaderText(key, width) == PadEnd(key, width)

\* display.match(/^\u001b\[[\d;]+m/)?.[0] || ''
ColorCode(display) ==
  IF EscapeEnd(display, 1) > 3 THEN SubSeq(display, 1, EscapeEnd(display, 1)) ELSE <<>>

\* display after #truncate and the removal of escapes, before padding
CellText(row, key, width, maxPrim, discourage) ==
  StripColors(Truncate(PlainCell(row, key, maxPrim, discourage), width, discourage))

Cell(row, key, width, maxPrim, discourage) ==
  <<" ">> \o ColorCode(FormatPrimitive(Get(row, key), maxPrim, discourage))
    \o PadEnd(CellText(row, key, width, maxPrim, discourage), width) \o RESET \o <<" ">>

Rule(widths, joint) ==
  Join([c \in 1..Len(widths) |-> Repeat(BOX_H, widths[c] + 2)], <<joint>>)

PrintTable(arr, indent, maxPrim, discourage) ==
  LET keys == ObjectKeys(arr[1])
      widths == Widths(arr, maxPrim, discourage)
      pre == IndentWidth(indent)
      top == <<BOX_TL>> \o Repeat(BOX_H, TotalWidth(widths)) \o <<BOX_TR>>
      headerCells == Join([c \in 1..Len(keys) |->
                             <<" ">> \o BOLD \o HeaderText(keys[c], widths[c]) \o RESET \o <<" ">>],
                          <<BOX_V>>)
      sep == <<BOX_SEP_L>> \o Rule(widths, BOX_SEP_T) \o <<BOX_SEP_R>>
      rowLine(r) ==
        <<BOX_V>>
          \o Join([c \in 1..Len(keys) |-> Cell(arr[r], keys[c], widths[c], maxPrim, discourage)],
                  <<BOX_V>>)
          \o <<BOX_V>>
      bottom == <<BOX_BL>> \o Rule(widths, BOX_SEP_B) \o <<BOX_BR>>
  IN <<MkLine(0, <<>>, indent, "blank"),
       MkLine(pre, top, indent, "border"),
       MkLine(pre, <<BOX_V>> \o headerCells \o <<BOX_V>>, indent, "header"),
       MkLine(pre, sep, indent, "separator")>>
     \o [r \in 1..Len(arr) |-> MkLine(pre, rowLine(r), indent, "row")]
     \o <<MkLine(pre, bottom, indent, "border")>>

(***************************************************************************)
(* print, #printObject, #printArray                                        *)
(***************************************************************************)
AllObjects(arr) == \A i \in 1..Len(arr) : GetType(arr[i]) = "object"

\* a mutant of AllSameShape: the comparison of the key counts forgotten
AllSameShapeNoCount(arr) ==
  \A i \in 1..Len(arr) :
    \A k \in 1..Len(ObjectKeys(arr[i])) : Includes(ObjectKeys(arr[1]), ObjectKeys(arr[i])[k])

AllSameShape(arr) ==
  LET firstKeys == ObjectKeys(arr[1])
  IN \A i \in 1..Len(arr) :
       LET keys == ObjectKeys(arr[i])
       IN Len(keys) = Len(firstKeys) /\ \A k \in 1..Len(keys) : Includes(firstKeys, keys[k])

\* the test under which #printArray hands the array to #printTable
UsesTable(arr) ==
  /\ Len(arr) # 0
  /\ AllObjects(arr) /\ Len(arr) > 0
  /\ AllSameShape(arr) /\ Len(ObjectKeys(arr[1])) > 0

RECURSIVE Flatten(_)
Flatten(blocks) == IF Len(blocks) = 0 THEN <<>> ELSE blocks[1] \o Flatten(Tail(blocks))

RECURSIVE PrettyPrint(_, _, _, _)
RECURSIVE PrintObject(_, _, _, _)
RECURSIVE PrintArray(_, _, _, _)

PrettyPrint(obj, indent, maxPrim, discourage) ==
  CASE GetType(obj) = "primitive" ->
         <<MkLine(IndentWidth(indent), FormatPrimitive(obj, maxPrim, discourage), indent, "scalar")>>
    [] GetType(obj) = "array" -> PrintArray(obj.items, indent, maxPrim, discourage)
    [] GetType(obj) = "object" -> PrintObject(obj, indent, maxPrim, discourage)
    [] OTHER -> <<MkLine(IndentWidth(indent), JsString(obj), indent, "scalar")>>

PrintObject(obj, indent, maxPrim, discourage) ==
  LET keys == ObjectKeys(obj)
      entry(i) ==
        LET value == Get(obj, keys[i])
        IN IF GetType(value) = "primitive"
           THEN <<MkLine(KeyIndentWidth(indent),
                         BOLD \o keys[i] \o RESET \o <<":", " ">>
                           \o FormatPrimitive(value, maxPrim, discourage),
                         indent, "key")>>
           ELSE <<MkLine(KeyIndentWidth(indent), BOLD \o keys[i] \o RESET \o <<":">>,
                         indent, "key")>>
                \o PrettyPrint(value, Deeper(indent), maxPrim, discourage)
  IN IF Len(keys) = 0
     THEN <<MkLine(indent * 2, <<"{", "}">>, indent, "empty")>>
     ELSE Flatten([i \in 1..Len(keys) |-> entry(i)])

PrintArray(arr, indent, maxPrim, discourage) ==
  IF Len(arr) = 0 THEN <<MkLine(indent * 2, <<"[", "]">>, indent, "empty")>>
  ELSE IF UsesTable(arr) THEN PrintTable(arr, indent, maxPrim, discourage)
  ELSE Flatten([i \in 1..Len(arr) |-> PrettyPrint(arr[i], Deeper(indent), maxPrim, discourage)])

(***************************************************************************)
(* The state: the two static fields of PrettyJSON, and the call in         *)
(* progress with its arguments, its locals and what it returns.            *)
(***************************************************************************)
VARIABLES max_prim_length, discourage_multiline, pc,
          in_str, in_max, out_str, keep,
          in_val, in_indent, out_lines,
          widths, headers, cells

vars == <<max_prim_length, discourage_multiline, pc, in_str, in_max, out_str, keep,
          in_val, in_indent, out_lines, widths, headers, cells>>

(***************************************************************************)
(* The inputs the calls are tried on.                                      *)
(***************************************************************************)
\* n characters, the one at index i (from 0) a line break when i < n
Text(n, i) == [k \in 1..n |-> IF k = i + 1 THEN NL ELSE "a"]

Texts == {Text(n, i) : n \in 0..MaxStrLen, i \in -1..(MaxStrLen - 1)}
MaxLens == -1..MaxStrLen
PrimLengths == {-1, 4, 26}
Indents == 0..MaxIndent

Injective(seq) == \A i, j \in 1..Len(seq) : i # j => seq[i] # seq[j]
KeySeqs(S, n) == {ks \in UNION {[1..k -> S] : k \in 0..n} : Injective(ks)}

ObjKeys == {<<"b">>, <<"2">>, <<"1", "0">>, <<"0", "1">>}
FieldValues == {Num(1), Arr(<<Bool(TRUE), Obj(<<<<"c">>>>, <<Null>>)>>)}
Objects ==
  UNION {{Obj(ks, vs) : vs \in [1..Len(ks) -> FieldValues]} : ks \in KeySeqs(ObjKeys, MaxKeys)}

KeyX == <<"x">>
KeyY == <<"y">>
Elems ==
  {Obj(<<KeyX>>, <<Num(1)>>), Obj(<<KeyY>>, <<Num(2)>>),
   Obj(<<KeyX, KeyY>>, <<Num(1), Num(2)>>), Obj(<<KeyY, KeyX>>, <<Num(4), Num(3)>>),
   Obj(<<>>, <<>>), Num(5), Arr(<<Obj(<<KeyX>>, <<Num(1)>>)>>)}
Arrays == {Arr(es) : es \in UNION {[1..k -> Elems] : k \in 0..MaxArrLen}}

Prims ==
  {Str(<<>>), Str(<<"h", "i">>), Str(Text(6, 2)), Str(Text(MaxStrLen, -1)),
   Num(0), Num(-7), Num(1234), Bool(TRUE), Bool(FALSE), Null}

Values == Prims \cup Objects \cup Arrays

KeyId == <<"i", "d">>
KeyLong == Repeat("k", LongLen)
TableKeySeqs == {<<KeyId>>, <<KeyLong>>, <<<<>>, KeyId>>}
FirstCells ==
  {Str(<<>>), Str(Text(5, 2)), Str(Repeat("a", LongLen)), Str(Text(LongLen, 30)),
   Num(1234), Null}
SecondCells == {Num(7)}
RowsOf(ks) ==
  IF Len(ks) = 1 THEN {Obj(ks, <<c>>) : c \in FirstCells}
  ELSE {Obj(ks, <<c, d>>) : c \in FirstCells, d \in SecondCells}
Tables ==
  UNION {UNION {[1..k -> RowsOf(ks)] : k \in 1..MaxRows} : ks \in TableKeySeqs}

(***************************************************************************)
(* The state machine.                                                      *)
(***************************************************************************)
Init ==
  /\ max_prim_length = -1
  /\ discourage_multiline = FALSE
  /\ pc = "idle"
  /\ in_str = <<>> /\ in_max = -1 /\ out_str = <<>> /\ keep = 0
  /\ in_val = Null /\ in_indent = 0 /\ out_lines = <<>>
  /\ widths = <<>> /\ headers = <<>> /\ cells = <<>>

\* PrettyJSON.max_prim_length = m
SetMaxPrimLength ==
  /\ pc = "idle"
  /\ \E m \in PrimLengths : max_prim_length' = m
  /\ UNCHANGED <<discourage_multiline, pc, in_str, in_max, out_str, keep,
                 in_val, in_indent, out_lines, widths, headers, cells>>

\* PrettyJSON.discourage_multiline = d
SetDiscourageMultiline ==
  /\ pc = "idle"
  /\ \E d \in BOOLEAN : discourage_multiline' = d
  /\ UNCHANGED <<max_prim_length, pc, in_str, in_max, out_str, keep,
                 in_val, in_indent, out_lines, widths, headers, cells>>

\* what a call of #truncate leaves: the text returned and the slice end used
\* (the whole length when the text is returned as it is)
TruncateResult(str, maxLen) ==
  /\ in_str' = str
  /\ in_max' = maxLen
  /\ out_str' = Truncate(str, maxLen, discourage_multiline)
  /\ keep' = IF Len(str) <= EffectiveMax(str, maxLen) THEN Len(str)
             ELSE SliceEnd(str, maxLen, discourage_multiline)
  /\ UNCHANGED <<max_prim_length, discourage_multiline, in_val, in_indent, out_lines,
                 widths, headers, cells>>

\* #truncate(str, maxLen)
TruncateCall ==
  /\ pc = "idle"
  /\ pc' = "truncated"
  /\ \E str \in Texts, maxLen \in MaxLens : TruncateResult(str, maxLen)

\* #truncate of the text #truncate returned, with the same maxLen
TruncateAgain ==
  /\ pc = "truncated"
  /\ pc' = "retruncated"
  /\ TruncateResult(out_str, in_max)

\* print(obj, indent)
PrintCall ==
  /\ pc = "idle"
  /\ pc' = "printed"
  /\ \E obj \in Values, indent \in Indents :
       /\ in_val' = obj
       /\ in_indent' = indent
       /\ out_lines' = PrettyPrint(obj, indent, max_prim_length, discourage_multiline)
  /\ UNCHANGED <<max_prim_length, discourage_multiline, in_str, in_max, out_str, keep,
                 widths, headers, cells>>

\* #printTable(arr, indent), called by #printArray alone, under UsesTable
PrintTableCall ==
  /\ pc = "idle"
  /\ pc' = "tabled"
  /\ \E arr \in Tables, indent \in Indents :
       LET keys == ObjectKeys(arr[1])
           w == Widths(arr, max_prim_length, discourage_multiline)
       IN /\ UsesTable(arr)
          /\ in_val' = Arr(arr)
          /\ in_indent' = indent
          /\ widths' = w
          /\ headers' = [c \in 1..Len(keys) |-> HeaderText(keys[c], w[c])]
          /\ cells' = [r \in 1..Len(arr) |->
                         [c \in 1..Len(keys) |->
                            CellText(arr[r], keys[c], w[c], max_prim_length,
                                     discourage_multiline)]]
          /\ out_lines' = PrintTable(arr, indent, max_prim_length, discourage_multiline)
  /\ UNCHANGED <<max_prim_length, discourage_multiline, in_str, in_max, out_str, keep>>

Next ==
  \/ SetMaxPrimLength
  \/ SetDiscourageMultiline
  \/ TruncateCall
  \/ TruncateAgain
  \/ PrintCall
  \/ PrintTableCall

Spec == Init /\ [][Next]_vars

(***************************************************************************)
(* The claims.                                                             *)
(***************************************************************************)
KeySet(obj) == {obj.keys[i] : i \in 1..Len(obj.keys)}

\* non-empty, all records, one key set, at least one key
TableCondition(arr) ==
  /\ Len(arr) > 0
  /\ \A i \in 1..Len(arr) : arr[i].tag = "object"
  /\ \A i \in 1..Len(arr) : KeySet(arr[i]) = KeySet(arr[1])
  /\ KeySet(arr[1]) # {}

BoxStart == {BOX_TL, BOX_BL, BOX_V, BOX_SEP_L}

\* a border or a boxed row at the indent of the sequence itself
OwnBorder ==
  \E i \in 1..Len(out_lines) :
    /\ out_lines[i].pre = 2 * in_indent
    /\ Len(out_lines[i].body) > 0
    /\ out_lines[i].body[1] \in BoxStart

C2_WithinMax ==
  (pc = "truncated" /\ in_max >= 0) => Len(out_str) <= in_max

\* C3: truncating the truncated text again, with the same maximum, returns it
\* unchanged.
C3_Idempotent ==
  pc = "retruncated" => out_str = in_str

\* C4: whenever the text is cut, the number of characters kept (the effective
\* maximum minus the overhead) is not negative.
C4_KeepNotNegative ==
  (pc = "truncated" /\ Len(in_str) > EffectiveMax(in_str, in_max)) => keep >= 0

\* C5: a text whose first line break is at i, with i below the maximum or no
\* maximum set, comes back without a line break and with its first line
\* (characters 0..i-1) in full.
C5_FirstLineInFull ==
  LET i == IndexOf(in_str, NL)
  IN (pc = "truncated" /\ i # -1 /\ (NoLimit(in_max) \/ i < in_max)) =>
       /\ IndexOf(out_str, NL) = -1
       /\ Len(out_str) >= i
       /\ SubSeq(out_str, 1, i) = SubSeq(in_str, 1, i)

Columns == ObjectKeys(in_val.items[1])

\* C6, as claimed: every column is at least as wide as its header and at most
\* 50 wide, and the header is not truncated.
C6_WidthAtLeastHeader ==
  pc = "tabled" =>
    \A c \in 1..Len(widths) :
      /\ widths[c] >= Len(Columns[c])
      /\ widths[c] <= ColumnCap
      /\ SubSeq(headers[c], 1, Len(Columns[c])) = Columns[c]

\* C6, as amended: every column is at most 50 wide and at least as wide as the
\* smaller of 50 and its header's length; the header is emitted in full, also
\* when it is longer than its column.
C6_WidthWithinCap ==
  pc = "tabled" =>
    /\ Len(widths) = Len(Columns)
    /\ \A c \in 1..Len(widths) :
         /\ widths[c] <= ColumnCap
         /\ widths[c] >= Min(Len(Columns[c]), ColumnCap)
         /\ Len(headers[c]) >= Len(Columns[c])
         /\ SubSeq(headers[c], 1, Len(Columns[c])) = Columns[c]

\* C6, witness: a column whose header is longer than 50, and a cell longer than 50
C6_Witness ==
  /\ pc = "tabled"
  /\ \E c \in 1..Len(widths) : Len(Columns[c]) > ColumnCap /\ widths[c] = ColumnCap
  /\ \E r \in 1..Len(in_val.items) : in_val.items[r].items[1] = Str(Repeat("a", LongLen))

\* C7: every cell's text, truncated and without escapes, before padding, is no
\* longer than its column's width.
C7_CellWithinWidth ==
  pc = "tabled" =>
    \A r \in 1..Len(cells) : \A c \in 1..Len(widths) : Len(cells[r][c]) <= widths[c]

OwnKeyLine(line) ==
  /\ line.pre = 2 * in_indent + 2
  /\ Len(line.body) > Len(BOLD)
  /\ SubSeq(line.body, 1, Len(BOLD)) = BOLD

\* the key a key line shows, between the bold escape and the reset
KeyLabel(body) ==
  LET from == Len(BOLD) + 1
      to == CHOOSE j \in from..Len(body) :
              body[j] = ESC /\ \A k \in from..(j - 1) : body[k] # ESC
  IN SubSeq(body, from, to - 1)

Labels ==
  LET own == SelectSeq(out_lines, OwnKeyLine)
  IN [i \in 1..Len(own) |-> KeyLabel(own[i].body)]

Inserted(key) == CHOOSE i \in 1..Len(in_val.keys) : in_val.keys[i] = key

C9_PrefixTwicePerLevel ==
  pc = "printed" =>
    \A i \in 1..Len(out_lines) :
      out_lines[i].kind # "blank" =>
        /\ out_lines[i].lvl >= in_indent
        /\ out_lines[i].pre = 2 * out_lines[i].lvl

\* C9, as amended: a scalar line, [], {} and a table's borders and rows,
\* emitted by a call at level L, are prefixed by exactly 2*L spaces; a
\* record's key line is prefixed by exactly 2*L+2 spaces; the empty line that
\* opens a table has no prefix; the elements of a vertical list are emitted
\* at level L+1.
C9_PrefixByKind ==
  pc = "printed" =>
    /\ \A i \in 1..Len(out_lines) :
         /\ out_lines[i].lvl >= in_indent
         /\ out_lines[i].kind = "key" => out_lines[i].pre = 2 * out_lines[i].lvl + 2
         /\ out_lines[i].kind = "blank" => out_lines[i].pre = 0
         /\ out_lines[i].kind \notin {"key", "blank"} =>
              out_lines[i].pre = 2 * out_lines[i].lvl
    /\ GetType(in_val) = "primitive" => out_lines[1].pre = 2 * in_indent
    /\ (in_val.tag = "array" /\ Len(in_val.items) > 0
          /\ GetType(in_val.items[1]) = "primitive") =>
         out_lines[1].pre = 2 * (in_indent + 1)

\* C9, witness: a record at level 1 with a scalar field and a nested field
C9_Witness ==
  /\ pc = "printed" /\ in_indent = 1 /\ in_val.tag = "object"
  /\ \E i \in 1..Len(out_lines) :
       out_lines[i].kind = "key" /\ out_lines[i].lvl = 1 /\ out_lines[i].pre = 4
  /\ \E i \in 1..Len(out_lines) :
       out_lines[i].kind = "scalar" /\ out_lines[i].lvl = 3 /\ out_lines[i].pre = 6

\* C10: the lines of a table, without escapes, all have the length
\* indent + sum of the column widths + 3 * number of columns + 1.
C10_Rectangular ==
  pc = "tabled" =>
    \A i \in 1..Len(out_lines) :
      out_lines[i].kind # "blank" =>
        out_lines[i].pre + Len(StripColors(out_lines[i].body))
          = 2 * in_indent + SumSeq(widths) + 3 * Len(widths) + 1

====
